---------------------------- MODULE Spec2Model ----------------------------
(***************************************************************************)
(* A model of png2webp-comfyui.py: the PNG text-chunk extractor, the EXIF  *)
(* tag mapper, the single-file converter and the batch coordinator that    *)
(* runs the converter on a process pool.                                   *)
(*                                                                         *)
(* Text is modelled by TLA+ strings; paths are POSIX paths.  JSON texts    *)
(* are limited to the alphabet of the bounded input sets below: integers   *)
(* (no fractions or exponents), the constants NaN, Infinity and -Infinity, *)
(* and strings without escapes, quotes or control characters.  The image   *)
(* codec (PIL) is outside the repository: whether one of its calls raises  *)
(* is an attribute of the input file.  A print raises when stdout cannot   *)
(* encode the text, or when it writes the text at once (it is not          *)
(* block-buffered) and the reader is gone; a block-buffered stdout keeps   *)
(* the few lines of a bounded batch in its buffer, which is flushed when   *)
(* the worker processes are made.  In a path of the model the character    *)
(* "?" stands for a character stdout cannot encode (the lone surrogate     *)
(* os.fsdecode makes of a byte of a file name that is no UTF-8).  input()  *)
(* is left out.                                                            *)
(***************************************************************************)
EXTENDS Integers, Sequences, FiniteSets, TLC

VARIABLES
    fs,               \* the source tree: path -> [ctime, fault, has_text, text]
    argv,             \* sys.argv[1:]
    num_workers,      \* multiprocessing.cpu_count()
    buffered,         \* whether sys.stdout is block-buffered (a pipe, a file)
    pc,               \* where main() is
    files_to_convert, \* main's list of source paths
    webp_root,        \* main's output root
    tasks,            \* main's list of <<png_path, output_path>>
    dirs,             \* the directories os.makedirs has created
    futures,          \* one record per submitted task, in submission order
    written,          \* the destination files: output_path -> what was saved
    converted_count,
    failed_count,
    stdout            \* "open" while what sys.stdout writes has a reader

vars == <<fs, argv, num_workers, buffered, pc, files_to_convert, webp_root, tasks, dirs,
          futures, written, converted_count, failed_count, stdout>>

-----------------------------------------------------------------------------
(* Bounds of the model. *)

MaxFiles == 3
MaxWorkers == 2
MaxExtra == 272

-----------------------------------------------------------------------------
(* Strings. *)

Min(a, b) == IF a <= b THEN a ELSE b

\* s[i-1] in Python, "" past either end
Ch(s, i) == IF i >= 1 /\ i <= Len(s) THEN SubSeq(s, i, i) ELSE ""

\* s[i-1:j] in Python: a slice is cut at the end of the string
Slice(s, i, j) == IF i > Min(j, Len(s)) THEN "" ELSE SubSeq(s, i, Min(j, Len(s)))

UpperCase == "ABCDEFGHIJKLMNOPQRSTUVWXYZ"
LowerCase == "abcdefghijklmnopqrstuvwxyz"

LowerCh(c) ==
    IF \E k \in 1..26 : Ch(UpperCase, k) = c
    THEN Ch(LowerCase, CHOOSE k \in 1..26 : Ch(UpperCase, k) = c)
    ELSE c

RECURSIVE LowerFrom(_, _)
LowerFrom(s, i) == IF i > Len(s) THEN "" ELSE LowerCh(Ch(s, i)) \o LowerFrom(s, i + 1)

\* str.lower()
lower(s) == LowerFrom(s, 1)

\* str.endswith(suffix)
endswith(s, suffix) ==
    Len(s) >= Len(suffix) /\ Slice(s, Len(s) - Len(suffix) + 1, Len(s)) = suffix

\* str.rfind(c) + 1: the last position of character c, 0 when there is none
RFind(s, c) ==
    LET at == {i \in 1..Len(s) : Ch(s, i) = c}
    IN  IF at = {} THEN 0 ELSE CHOOSE i \in at : \A j \in at : j <= i

\* os.path.basename
basename(p) == Slice(p, RFind(p, "/") + 1, Len(p))

\* str.rstrip('/') of the first n characters of s
RECURSIVE RStripSlash(_, _)
RStripSlash(s, n) ==
    IF n >= 1 /\ Ch(s, n) = "/" THEN RStripSlash(s, n - 1) ELSE Slice(s, 1, n)

\* os.path.dirname: the head up to the last slash, without its trailing
\* slashes unless it is made of slashes only
dirname(p) ==
    LET i == RFind(p, "/")
    IN  IF RStripSlash(p, i) = "" THEN Slice(p, 1, i) ELSE RStripSlash(p, i)

\* os.path.join of two components
join(a, b) ==
    IF Ch(b, 1) = "/" THEN b
    ELSE IF a = "" \/ Ch(a, Len(a)) = "/" THEN a \o b
    ELSE a \o "/" \o b

\* os.path.splitext(p)[0]: the last dot splits, unless only dots precede it
splitext_root(p) ==
    LET sep == RFind(p, "/")
        dot == RFind(p, ".")
    IN  IF dot > sep /\ \E k \in (sep + 1)..(dot - 1) : Ch(p, k) # "."
        THEN Slice(p, 1, dot - 1)
        ELSE p

-----------------------------------------------------------------------------
(* Python values, as json.loads builds them.  A Python str is the same     *)
(* value whether it was parsed from a JSON string or kept as raw text.     *)

JNull == [t |-> "null"]
JBool(b) == [t |-> "bool", b |-> b]
JInt(n) == [t |-> "int", n |-> n]
JStr(s) == [t |-> "str", s |-> s]
\* the floats json.loads makes of NaN, Infinity and -Infinity: f is their str()
JFloat(f) == [t |-> "float", f |-> f]
JList(items) == [t |-> "list", items |-> items]
\* a dict: its items <<key, value>> in insertion order, the keys plain strings
JDict(items) == [t |-> "dict", items |-> items]

\* isinstance(v, dict), isinstance(v, (dict, list))
IsDict(v) == v.t = "dict"
IsDictOrList(v) == v.t \in {"dict", "list"}

\* d[k] = v on a dict: a new key goes last, a known key keeps its place
DictSet(items, k, v) ==
    IF \E i \in 1..Len(items) : items[i][1] = k
    THEN [i \in 1..Len(items) |-> IF items[i][1] = k THEN <<k, v>> ELSE items[i]]
    ELSE Append(items, <<k, v>>)

-----------------------------------------------------------------------------
(* json.loads: the decoder of the standard library, on the alphabet above. *)

Ok(v, e) == [ok |-> TRUE, v |-> v, end |-> e]
Fail == [ok |-> FALSE]

Digits == "0123456789"
IsDigit(c) == \E d \in 0..9 : Ch(Digits, d + 1) = c
DigitVal(c) == CHOOSE d \in 0..9 : Ch(Digits, d + 1) = c

RECURSIVE SkipWs(_, _)
SkipWs(s, i) == IF Ch(s, i) \in {" ", "\t", "\n", "\r"} THEN SkipWs(s, i + 1) ELSE i

RECURSIVE ScanDigits(_, _)
ScanDigits(s, i) == IF IsDigit(Ch(s, i)) THEN ScanDigits(s, i + 1) ELSE i

RECURSIVE DecVal(_, _, _, _)
DecVal(s, i, e, acc) ==
    IF i >= e THEN acc ELSE DecVal(s, i + 1, e, 10 * acc + DigitVal(Ch(s, i)))

\* NUMBER_RE: -?(0|[1-9][0-9]*), read as a Python int
ParseNumber(s, i) ==
    LET st == IF Ch(s, i) = "-" THEN i + 1 ELSE i
        e == IF Ch(s, st) = "0" THEN st + 1 ELSE ScanDigits(s, st)
        n == DecVal(s, st, e, 0)
    IN  IF e = st THEN Fail ELSE Ok(JInt(IF st > i THEN 0 - n ELSE n), e)

RECURSIVE FindQuote(_, _)
FindQuote(s, i) ==
    IF i > Len(s) THEN 0 ELSE IF Ch(s, i) = "\"" THEN i ELSE FindQuote(s, i + 1)

\* scanstring, from the opening quote at i
ParseString(s, i) ==
    LET j == FindQuote(s, i + 1)
    IN  IF j = 0 THEN Fail ELSE Ok(JStr(Slice(s, i + 1, j - 1)), j + 1)

RECURSIVE ParseValue(_, _), ParseMembers(_, _, _, _), MembersLoop(_, _),
          ParseElems(_, _, _)

\* scan_once at position i
ParseValue(s, i) ==
    LET c == Ch(s, i)
    IN  CASE c = "\"" -> ParseString(s, i)
          [] c = "{" -> LET j == SkipWs(s, i + 1)
                        IN  IF Ch(s, j) = "}" THEN Ok(JDict(<<>>), j + 1)
                            ELSE MembersLoop(s, [ok |-> TRUE, open |-> TRUE,
                                                 end |-> j, acc |-> <<>>])
          [] c = "[" -> LET j == SkipWs(s, i + 1)
                        IN  IF Ch(s, j) = "]" THEN Ok(JList(<<>>), j + 1)
                            ELSE ParseElems(s, j, <<>>)
          [] c = "n" /\ Slice(s, i, i + 3) = "null" -> Ok(JNull, i + 4)
          [] c = "t" /\ Slice(s, i, i + 3) = "true" -> Ok(JBool(TRUE), i + 4)
          [] c = "f" /\ Slice(s, i, i + 4) = "false" -> Ok(JBool(FALSE), i + 5)
          [] c = "-" \/ IsDigit(c) ->
                 IF ParseNumber(s, i).ok THEN ParseNumber(s, i)
                 ELSE IF Slice(s, i, i + 8) = "-Infinity" THEN Ok(JFloat("-inf"), i + 9)
                 ELSE Fail
          [] c = "N" /\ Slice(s, i, i + 2) = "NaN" -> Ok(JFloat("nan"), i + 3)
          [] c = "I" /\ Slice(s, i, i + 7) = "Infinity" -> Ok(JFloat("inf"), i + 8)
          [] OTHER -> Fail

\* JSONObject: up to n rounds of its loop, from a key at j on, acc the pairs
\* read so far; open tells that the object goes on after these rounds
ParseMembers(s, j, acc, n) ==
    LET k == ParseString(s, j)
        c == SkipWs(s, k.end)
        v == ParseValue(s, SkipWs(s, c + 1))
        e == SkipWs(s, v.end)
        member == Ch(s, j) = "\"" /\ k.ok /\ Ch(s, c) = ":" /\ v.ok
        acc2 == DictSet(acc, k.v.s, v.v)
    IN  CASE n = 0 -> [ok |-> TRUE, open |-> TRUE, end |-> j, acc |-> acc]
          [] n > 0 /\ member /\ Ch(s, e) = "," ->
                 ParseMembers(s, SkipWs(s, e + 1), acc2, n - 1)
          [] n > 0 /\ member /\ Ch(s, e) = "}" ->
                 [ok |-> TRUE, open |-> FALSE, end |-> e + 1, acc |-> acc2]
          [] OTHER -> Fail

\* JSONObject: its loop, run sixteen rounds at a time (the recursion stays shallow)
MembersLoop(s, r) ==
    IF ~r.ok THEN Fail
    ELSE IF r.open THEN MembersLoop(s, ParseMembers(s, r.end, r.acc, 16))
    ELSE Ok(JDict(r.acc), r.end)

\* JSONArray: the elements from position j on
ParseElems(s, j, acc) ==
    LET v == ParseValue(s, j)
        e == SkipWs(s, v.end)
        acc2 == Append(acc, v.v)
    IN  CASE v.ok /\ Ch(s, e) = "," -> ParseElems(s, SkipWs(s, e + 1), acc2)
          [] v.ok /\ Ch(s, e) = "]" -> Ok(JList(acc2), e + 1)
          [] OTHER -> Fail

\* json.loads(s): ok = FALSE stands for json.JSONDecodeError
json_loads(s) ==
    LET r == ParseValue(s, SkipWs(s, 1))
    IN  IF r.ok /\ SkipWs(s, r.end) = Len(s) + 1 THEN [ok |-> TRUE, v |-> r.v]
        ELSE Fail

-----------------------------------------------------------------------------
(* json.dumps(v, ensure_ascii=False) and str(v). *)

RECURSIVE json_dumps(_), DumpItems(_, _), DumpElems(_, _)

json_dumps(v) ==
    CASE v.t = "null" -> "null"
      [] v.t = "bool" -> IF v.b THEN "true" ELSE "false"
      [] v.t = "int" -> ToString(v.n)
      [] v.t = "float" -> (CASE v.f = "nan" -> "NaN"
                             [] v.f = "inf" -> "Infinity"
                             [] v.f = "-inf" -> "-Infinity")
      [] v.t = "str" -> "\"" \o v.s \o "\""
      [] v.t = "list" -> "[" \o DumpElems(v.items, 1) \o "]"
      [] v.t = "dict" -> "{" \o DumpItems(v.items, 1) \o "}"

DumpElems(items, i) ==
    IF i > Len(items) THEN ""
    ELSE json_dumps(items[i]) \o (IF i < Len(items) THEN ", " ELSE "")
         \o DumpElems(items, i + 1)

DumpItems(items, i) ==
    IF i > Len(items) THEN ""
    ELSE "\"" \o items[i][1] \o "\": " \o json_dumps(items[i][2])
         \o (IF i < Len(items) THEN ", " ELSE "") \o DumpItems(items, i + 1)

RECURSIVE py_repr(_), ReprItems(_, _), ReprElems(_, _)

\* repr(v)
py_repr(v) ==
    CASE v.t = "null" -> "None"
      [] v.t = "bool" -> IF v.b THEN "True" ELSE "False"
      [] v.t = "int" -> ToString(v.n)
      [] v.t = "float" -> v.f
      [] v.t = "str" -> "'" \o v.s \o "'"
      [] v.t = "list" -> "[" \o ReprElems(v.items, 1) \o "]"
      [] v.t = "dict" -> "{" \o ReprItems(v.items, 1) \o "}"

ReprElems(items, i) ==
    IF i > Len(items) THEN ""
    ELSE py_repr(items[i]) \o (IF i < Len(items) THEN ", " ELSE "")
         \o ReprElems(items, i + 1)

ReprItems(items, i) ==
    IF i > Len(items) THEN ""
    ELSE "'" \o items[i][1] \o "': " \o py_repr(items[i][2])
         \o (IF i < Len(items) THEN ", " ELSE "") \o ReprItems(items, i + 1)

\* str(v)
py_str(v) == IF v.t = "str" THEN v.s ELSE py_repr(v)

-----------------------------------------------------------------------------
(* The source tree.  A file is [ctime, fault, has_text, text]:             *)
(*   ctime     the day of January 2024 os.path.getctime reports, 0 when    *)
(*             getctime raises;                                            *)
(*   fault     the codec call that raises for this file: "open"            *)
(*             (Image.open), "extract" (reading the text chunks), "map"    *)
(*             (building the Exif object), "save" (img.save, before it     *)
(*             opens the destination), or "none";                          *)
(*   has_text  whether the opened image has a text attribute;              *)
(*   text      img.text: chunk name -> chunk text.                         *)

\* "in?" is an empty folder whose name stdout cannot encode
Directories == {"in", "in/sub", "in?"}

exists(path) == path \in DOMAIN fs \/ path \in Directories
isfile(path) == path \in DOMAIN fs
isdir(path) == path \in Directories

\* the stand-in, in the paths of the model, for a character stdout cannot
\* encode: the lone surrogate (U+DC80 to U+DCFF) os.fsdecode makes of a byte
\* of a file name that is no UTF-8
Surrogate == "?"

\* str.encode by sys.stdout raises no UnicodeEncodeError for this text
encodable(text) == \A k \in 1..Len(text) : Ch(text, k) # Surrogate

\* print(...) of a text without a path, and of one that holds `path` (a
\* source path, or the base name of one): FALSE when the print raises.  A
\* block-buffered stdout encodes the text and keeps it in its buffer
print_ok == buffered \/ stdout = "open"
print_path_ok(path) == encodable(path) /\ print_ok

NoChunks == [k \in {} |-> ""]
EmptyDict == [k \in {} |-> JNull]

-----------------------------------------------------------------------------
(* extract_png_metadata *)

\* lines 31-34 and 37-40: json.loads, the raw text on JSONDecodeError
LoadChunk(text) == IF json_loads(text).ok THEN json_loads(text).v ELSE JStr(text)

\* lines 18-46: raised tells that the print of line 45 raised, inside the
\* handler of line 44, so that no {} is returned
extract_png_metadata(png_path) ==
    LET f == fs[png_path]
    IN  IF f.fault \in {"open", "extract"}
        THEN [raised |-> ~print_path_ok(png_path), value |-> EmptyDict]
        ELSE IF ~f.has_text THEN [raised |-> FALSE, value |-> EmptyDict]
        ELSE [raised |-> FALSE,
              value |-> [key \in DOMAIN f.text \cap {"prompt", "workflow", "extra_pnginfo"}
                            |-> LoadChunk(f.text[key])]]

-----------------------------------------------------------------------------
(* create_exif_for_webp: the assignments exif[tag] = value, in the order   *)
(* the function makes them.                                                *)

PromptTag == 272
WorkflowTag == 271
FirstExtraTag == 270

Assign(tag, value) == [tag |-> tag, value |-> value]

\* lines 61 and 65
TopValue(v) == IF IsDict(v) THEN json_dumps(v) ELSE py_str(v)

\* line 71
ExtraValue(v) == IF IsDictOrList(v) THEN json_dumps(v) ELSE py_str(v)

\* line 73 with the step reversed, and with the step left out
NextTagId_Up(tag_id) == tag_id + 1
NextTagId_Stuck(tag_id) == tag_id

\* line 73
NextTagId(tag_id) == tag_id - 1

\* lines 70-73: up to n rounds of the loop, from the k-th item on
RECURSIVE ExtraLoop(_, _, _, _, _)
ExtraLoop(items, k, tag_id, exif, n) ==
    IF k > Len(items) \/ n = 0 THEN [k |-> k, tag_id |-> tag_id, exif |-> exif]
    ELSE ExtraLoop(items, k + 1, NextTagId(tag_id),
                   Append(exif, Assign(tag_id,
                                       items[k][1] \o ":" \o ExtraValue(items[k][2]))),
                   n - 1)

\* lines 70-73: the loop, run sixteen rounds at a time (the recursion stays
\* shallow)
RECURSIVE ExtraRounds(_, _)
ExtraRounds(items, r) ==
    IF r.k > Len(items) THEN r.exif
    ELSE ExtraRounds(items, ExtraLoop(items, r.k, r.tag_id, r.exif, 16))

\* line 68: the entries the loop runs over
ExtraItems(metadata_dict) ==
    IF "extra_pnginfo" \in DOMAIN metadata_dict /\ IsDict(metadata_dict["extra_pnginfo"])
    THEN metadata_dict["extra_pnginfo"].items
    ELSE <<>>

create_exif_for_webp(metadata_dict) ==
    LET e1 == IF "prompt" \in DOMAIN metadata_dict
              THEN <<Assign(PromptTag, "prompt:" \o TopValue(metadata_dict["prompt"]))>>
              ELSE <<>>
        e2 == IF "workflow" \in DOMAIN metadata_dict
              THEN Append(e1, Assign(WorkflowTag,
                                     "workflow:" \o TopValue(metadata_dict["workflow"])))
              ELSE e1
    IN  ExtraRounds(ExtraItems(metadata_dict),
                    [k |-> 1, tag_id |-> FirstExtraTag, exif |-> e2])

-----------------------------------------------------------------------------
(* save_webp_with_metadata, in the two steps a worker process takes: it    *)
(* opens the source and reads its metadata, then maps, saves, prints and   *)
(* returns.  raised tells whether an exception left the function; saved    *)
(* whether img.save returned.                                              *)

\* lines 84-87: stage is the line that raised, "open" (line 86) or "extract"
\* (line 87), or "none"
open_and_extract(args) ==
    IF fs[args[1]].fault = "open"
    THEN [stage |-> "open", metadata_dict |-> EmptyDict]
    ELSE [stage |-> IF extract_png_metadata(args[1]).raised THEN "extract" ELSE "none",
          metadata_dict |-> extract_png_metadata(args[1]).value]

\* lines 115-117: the handler prints the path, then returns (False, png_path);
\* when its print raises, the exception leaves the function
on_exception(png_path, saved, exif) ==
    [success |-> FALSE, png_path |-> png_path, raised |-> ~print_path_ok(png_path),
     saved |-> saved, exif |-> exif]

\* lines 100-106
saved_keys(metadata_dict) ==
    (IF "prompt" \in DOMAIN metadata_dict THEN <<"prompt">> ELSE <<>>)
    \o (IF "workflow" \in DOMAIN metadata_dict THEN <<"workflow">> ELSE <<>>)
    \o [k \in 1..Len(ExtraItems(metadata_dict)) |->
           "extra_" \o ExtraItems(metadata_dict)[k][1]]

\* lines 86-98: no line up to img.save raises, img.save opens the destination
reaches_save(png_path, stage) ==
    stage = "none" /\ fs[png_path].fault \notin {"map", "save"}

\* lines 88-117, from the locals of lines 84-87; line 109 prints the keys,
\* line 111 the base name of the source
save_webp_with_metadata(args, stage, metadata_dict) ==
    LET png_path == args[1]
        printed == IF Len(saved_keys(metadata_dict)) > 0 THEN print_ok
                   ELSE print_path_ok(basename(png_path))
    IN  IF ~reaches_save(png_path, stage) THEN on_exception(png_path, FALSE, <<>>)
        ELSE IF ~printed
        THEN on_exception(png_path, TRUE, create_exif_for_webp(metadata_dict))
        ELSE [success |-> TRUE, png_path |-> png_path, raised |-> FALSE,
              saved |-> TRUE, exif |-> create_exif_for_webp(metadata_dict)]

-----------------------------------------------------------------------------
(* process_directory and get_creation_date *)

RECURSIVE Perms(_)
Perms(S) ==
    IF S = {} THEN {<<>>}
    ELSE UNION {{<<x>> \o p : p \in Perms(S \ {x})} : x \in S}

\* line 128
IsPng(file) == endswith(lower(file), ".png")

\* os.walk is top-down: a directory's own files come before those of its
\* subdirectories, each group in the order the file system lists them
process_directory(directory) ==
    LET own == {p \in DOMAIN fs : dirname(p) = directory /\ IsPng(basename(p))}
        below == {p \in DOMAIN fs :
                     /\ Slice(p, 1, Len(directory) + 1) = directory \o "/"
                     /\ dirname(p) # directory
                     /\ IsPng(basename(p))}
    IN  {a \o b : a \in Perms(own), b \in Perms(below)}

\* the days of January 2024 a file of the tree may have been created on
Days == {1, 2}

\* datetime.now() at line 143: a day no file was created after
Nows ==
    {d \in 1..((CHOOSE m \in Days : \A e \in Days : e <= m) + 1) :
        \A p \in DOMAIN fs : fs[p].ctime <= d}

\* strftime('%Y_%m_%d') of a day of January 2024
DateString(day) == "2024_01_" \o (IF day < 10 THEN "0" ELSE "") \o ToString(day)

\* lines 133-143, now the day datetime.now() gives
get_creation_date(png_path, now) ==
    IF fs[png_path].ctime = 0 THEN DateString(now)
    ELSE DateString(fs[png_path].ctime)

-----------------------------------------------------------------------------
(* main, and the workers of its ProcessPoolExecutor. *)

\* state is "queued", "running" (the worker has read the source), "saving"
\* (img.save has opened the destination) or "done"
NoFuture ==
    [state |-> "queued", runs |-> 0, collected |-> FALSE, stage |-> "none",
     metadata_dict |-> EmptyDict, success |-> FALSE, png_path |-> "",
     raised |-> FALSE, saved |-> FALSE, exif |-> <<>>]

Queued == {i \in 1..Len(futures) : futures[i].state = "queued"}
Running == {i \in 1..Len(futures) : futures[i].state = "running"}
Saving == {i \in 1..Len(futures) : futures[i].state = "saving"}

\* lines 147-168: the argument and the list of files.  Every path through
\* them prints first (lines 148, 157, 167, 172), the single-file one after it
\* has set files_to_convert (lines 163-165) and before it makes the output
\* root (lines 176-183); the folder one goes on at line 170
Main_Start ==
    /\ pc = "start"
    /\ IF Len(argv) < 1
       THEN /\ pc' = IF print_ok THEN "exit" ELSE "crashed"
            /\ UNCHANGED <<files_to_convert, webp_root, dirs>>
       ELSE IF ~exists(argv[1])
       THEN /\ pc' = IF print_path_ok(argv[1]) THEN "exit" ELSE "crashed"
            /\ UNCHANGED <<files_to_convert, webp_root, dirs>>
       ELSE IF isfile(argv[1]) /\ endswith(lower(argv[1]), ".png")
       THEN /\ files_to_convert' = <<argv[1]>>
            /\ IF print_path_ok(argv[1])
               THEN /\ webp_root' = join(dirname(argv[1]), "webp")
                    /\ dirs' = dirs \cup {join(dirname(argv[1]), "webp")}
                    /\ pc' = "plan"
               ELSE /\ pc' = "crashed"
                    /\ UNCHANGED <<webp_root, dirs>>
       ELSE IF isdir(argv[1])
       THEN IF print_path_ok(argv[1])
            THEN /\ \E found \in process_directory(argv[1]) :
                       files_to_convert' = found
                 /\ pc' = "found"
                 /\ UNCHANGED <<webp_root, dirs>>
            ELSE /\ pc' = "crashed"
                 /\ UNCHANGED <<files_to_convert, webp_root, dirs>>
       ELSE /\ pc' = IF print_path_ok(argv[1]) THEN "exit" ELSE "crashed"
            /\ UNCHANGED <<files_to_convert, webp_root, dirs>>
    /\ UNCHANGED <<fs, argv, num_workers, buffered, tasks, futures, written,
                   converted_count, failed_count, stdout>>

\* lines 169-183 of the folder path: the number of files found is printed
\* (line 170); without files main prints and returns (lines 176-179), else it
\* makes the output root
Main_Found ==
    /\ pc = "found"
    /\ IF ~print_ok
       THEN /\ pc' = "crashed"
            /\ UNCHANGED <<webp_root, dirs>>
       ELSE IF files_to_convert = <<>>
       THEN /\ pc' = "exit"
            /\ UNCHANGED <<webp_root, dirs>>
       ELSE /\ webp_root' = join(argv[1], "webp")
            /\ dirs' = dirs \cup {join(argv[1], "webp")}
            /\ pc' = "plan"
    /\ UNCHANGED <<fs, argv, num_workers, buffered, files_to_convert, tasks, futures,
                   written, converted_count, failed_count, stdout>>

\* line 193: the destination of a source file under a date folder
output_path_of(subfolder_path, png_path) ==
    join(subfolder_path, splitext_root(basename(png_path)) \o ".webp")

\* lines 187-194 without line 190
Main_Plan_NoMakedirs ==
    /\ pc = "plan"
    /\ Len(tasks) < Len(files_to_convert)
    /\ \E now \in Nows :
          LET png_path == files_to_convert[Len(tasks) + 1]
              subfolder_path == join(webp_root, get_creation_date(png_path, now))
          IN  tasks' = Append(tasks, <<png_path, output_path_of(subfolder_path, png_path)>>)
    /\ UNCHANGED <<fs, argv, num_workers, buffered, pc, files_to_convert, webp_root, dirs,
                   futures, written, converted_count, failed_count, stdout>>

\* lines 187-194: one iteration of the loop that builds the tasks
Main_Plan ==
    /\ pc = "plan"
    /\ Len(tasks) < Len(files_to_convert)
    /\ \E now \in Nows :
          LET png_path == files_to_convert[Len(tasks) + 1]
              subfolder_path == join(webp_root, get_creation_date(png_path, now))
          IN  /\ dirs' = dirs \cup {subfolder_path}
              /\ tasks' = Append(tasks, <<png_path, output_path_of(subfolder_path, png_path)>>)
    /\ UNCHANGED <<fs, argv, num_workers, buffered, pc, files_to_convert, webp_root,
                   futures, written, converted_count, failed_count, stdout>>

\* lines 196-211: the loop is over, the number of workers is printed, the
\* counters are set, the pool is made
Main_OpenPool ==
    /\ pc = "plan"
    /\ Len(tasks) = Len(files_to_convert)
    /\ IF print_ok
       THEN /\ converted_count' = 0
            /\ failed_count' = 0
            /\ pc' = "submit"
       ELSE /\ pc' = "crashed"
            /\ UNCHANGED <<converted_count, failed_count>>
    /\ UNCHANGED <<fs, argv, num_workers, buffered, files_to_convert, webp_root, tasks,
                   dirs, futures, written, stdout>>

\* line 212: executor.submit of the next task.  The first submit makes the
\* worker processes, and multiprocessing flushes sys.stdout before it makes
\* one: the lines printed so far (165 or 167-170, 198) are written, which
\* raises BrokenPipeError when they were still in the buffer and the reader
\* is gone
Main_Submit ==
    /\ pc = "submit"
    /\ Len(futures) < Len(tasks)
    /\ IF Len(futures) = 0 /\ buffered /\ stdout = "closed"
       THEN /\ pc' = "crashed"
            /\ UNCHANGED futures
       ELSE /\ futures' = Append(futures, NoFuture)
            /\ pc' = IF Len(futures) + 1 = Len(tasks) THEN "collect" ELSE "submit"
    /\ UNCHANGED <<fs, argv, num_workers, buffered, files_to_convert, webp_root,
                   tasks, dirs, written, converted_count, failed_count, stdout>>

\* a worker process runs lines 84-87 of a call it has taken: the pool hands the
\* calls out in submission order, one to each free worker, and the workers run
\* as the system schedules them
Worker_Start(i) ==
    /\ i \in Queued
    /\ Cardinality({j \in Queued : j < i}) + Cardinality(Running \cup Saving)
          < num_workers
    /\ futures' = [futures EXCEPT ![i].state = "running", ![i].runs = @ + 1,
                                  ![i].stage = open_and_extract(tasks[i]).stage,
                                  ![i].metadata_dict =
                                      open_and_extract(tasks[i]).metadata_dict]
    /\ UNCHANGED <<fs, argv, num_workers, buffered, pc, files_to_convert, webp_root, tasks,
                   dirs, written, converted_count, failed_count, stdout>>

\* what img.save writes at lines 90-98: the image of the source with its tags
Content(png_path, exif) == [src |-> png_path, exif |-> exif]

\* a destination that holds bytes of more than one writer
Mixed == [src |-> "", exif |-> <<>>]

\* lines 88-98: the worker maps the tags and img.save opens the destination
\* and writes it.  The writes of two workers to one destination are not
\* ordered: when another worker has the destination open it ends up with the
\* bytes of this one, of the other, or of both
Worker_Save(i) ==
    /\ i \in Running
    /\ reaches_save(tasks[i][1], futures[i].stage)
    /\ futures' = [futures EXCEPT ![i].state = "saving"]
    /\ LET own == Content(tasks[i][1], create_exif_for_webp(futures[i].metadata_dict))
       IN  \E content \in IF \E j \in Saving : tasks[j][2] = tasks[i][2]
                           THEN {own, written[tasks[i][2]], Mixed}
                           ELSE {own} :
               written' = (tasks[i][2] :> content) @@ written
    /\ UNCHANGED <<fs, argv, num_workers, buffered, pc, files_to_convert, webp_root, tasks,
                   dirs, converted_count, failed_count, stdout>>

\* the worker runs the rest of lines 88-117, after img.save or from the line
\* that raised, and its call returns or raises
Worker_Finish(i) ==
    /\ \/ i \in Saving
       \/ i \in Running /\ ~reaches_save(tasks[i][1], futures[i].stage)
    /\ LET r == save_webp_with_metadata(tasks[i], futures[i].stage,
                                        futures[i].metadata_dict)
       IN  futures' = [futures EXCEPT ![i].state = "done",
                                      ![i].success = r.success,
                                      ![i].png_path = r.png_path,
                                      ![i].raised = r.raised,
                                      ![i].saved = r.saved,
                                      ![i].exif = r.exif]
    /\ UNCHANGED <<fs, argv, num_workers, buffered, pc, files_to_convert, webp_root, tasks,
                   dirs, written, converted_count, failed_count, stdout>>

\* lines 216-219 with a failure left uncounted
CountResult_DropFailed(success, counts) ==
    IF success THEN <<counts[1] + 1, counts[2]>> ELSE counts

\* lines 216-219
CountResult(success, counts) ==
    IF success THEN <<counts[1] + 1, counts[2]>> ELSE <<counts[1], counts[2] + 1>>

\* lines 214-219: as_completed yields a finished future, its result is counted;
\* future.result() raises what the worker raised, which ends main
Main_Collect(i) ==
    /\ pc = "collect"
    /\ i \in 1..Len(futures)
    /\ futures[i].state = "done"
    /\ ~futures[i].collected
    /\ futures' = [futures EXCEPT ![i].collected = TRUE]
    /\ IF futures[i].raised
       THEN /\ pc' = "crashed"
            /\ UNCHANGED <<converted_count, failed_count>>
       ELSE /\ pc' = pc
            /\ converted_count' =
                   CountResult(futures[i].success, <<converted_count, failed_count>>)[1]
            /\ failed_count' =
                   CountResult(futures[i].success, <<converted_count, failed_count>>)[2]
    /\ UNCHANGED <<fs, argv, num_workers, buffered, files_to_convert, webp_root, tasks,
                   dirs, written, stdout>>

\* as_completed is exhausted once every future has been yielded
AllCollected == \A i \in 1..Len(futures) : futures[i].collected

\* lines 225-228: the summary
Main_Report ==
    /\ pc = "collect"
    /\ AllCollected
    /\ pc' = IF print_ok THEN "done" ELSE "crashed"
    /\ UNCHANGED <<fs, argv, num_workers, buffered, files_to_convert, webp_root, tasks,
                   dirs, futures, written, converted_count, failed_count, stdout>>

\* the reader of stdout goes away (a closed pipe), at any point of the run
Stdout_Close ==
    /\ stdout = "open"
    /\ pc \in {"start", "found", "plan", "submit", "collect"}
    /\ stdout' = "closed"
    /\ UNCHANGED <<fs, argv, num_workers, buffered, pc, files_to_convert, webp_root, tasks,
                   dirs, futures, written, converted_count, failed_count>>

Next ==
    \/ Main_Start
    \/ Main_Found
    \/ Main_Plan
    \/ Main_OpenPool
    \/ Main_Submit
    \/ \E i \in 1..Len(futures) : Worker_Start(i)
    \/ \E i \in 1..Len(futures) : Worker_Save(i)
    \/ \E i \in 1..Len(futures) : Worker_Finish(i)
    \/ \E i \in 1..Len(futures) : Main_Collect(i)
    \/ Main_Report
    \/ Stdout_Close

-----------------------------------------------------------------------------
(* The inputs. *)

StartOfMain ==
    /\ pc = "start"
    /\ files_to_convert = <<>>
    /\ webp_root = ""
    /\ tasks = <<>>
    /\ dirs = {}
    /\ futures = <<>>
    /\ written = [p \in {} |-> Mixed]
    /\ converted_count = 0
    /\ failed_count = 0
    /\ stdout = "open"

\* A batch: up to MaxFiles files of a small tree, each image with a prompt
\* chunk; the files a path may be ("in/?.PNG" has a name stdout cannot encode)
BatchPaths == {"in/x.png", "in/?.PNG", "in/sub/x.png", "in/notes.txt"}
BatchFile(ctime, fault) ==
    [ctime |-> ctime, fault |-> fault, has_text |-> TRUE,
     text |-> [k \in {"prompt"} |-> "{\"a\": 1}"]]
BatchFiles(p) ==
    CASE p = "in/x.png" ->
             {BatchFile(1, "none"), BatchFile(1, "save"), BatchFile(0, "none")}
      [] p = "in/?.PNG" -> {BatchFile(1, "none"), BatchFile(1, "save")}
      [] p = "in/sub/x.png" -> {BatchFile(1, "none"), BatchFile(1, "save")}
      [] OTHER -> {}
\* a file that is no image
NotesFile ==
    [ctime |-> 1, fault |-> "open", has_text |-> FALSE, text |-> NoChunks]
BatchTrees ==
    UNION {{f \in [S -> UNION {BatchFiles(p) : p \in S} \cup {NotesFile}] :
               \A p \in S : IF IsPng(p) THEN f[p] \in BatchFiles(p)
                                       ELSE f[p] = NotesFile} :
           S \in {S \in SUBSET BatchPaths : Cardinality(S) <= MaxFiles}}

Init ==
    /\ fs \in BatchTrees
    /\ argv \in {<<>>, <<"nowhere">>, <<"no?where">>, <<"in">>, <<"in?">>}
                \cup {<<p>> : p \in DOMAIN fs}
    /\ num_workers \in 1..MaxWorkers
    /\ buffered \in BOOLEAN
    /\ StartOfMain

Spec == Init /\ [][Next]_vars

\* One file, with every combination of the chunk texts below
\* the members "k<i>": <i> for i from lo to hi
RECURSIVE WideMembers(_, _)
WideMembers(lo, hi) ==
    IF lo > hi THEN ""
    ELSE IF lo = hi THEN "\"k" \o ToString(lo) \o "\": " \o ToString(lo)
    ELSE WideMembers(lo, (lo + hi) \div 2) \o ", "
         \o WideMembers((lo + hi) \div 2 + 1, hi)

\* the JSON text of a mapping with n entries
WideText(n) == "{" \o WideMembers(1, n) \o "}"

PromptTexts ==
    {"{\"a\": 1}", "{\"a\":1}", "{\"n\": {\"k\": [1, \"v\"]}, \"m\": null}",
     "[1, \"a\"]", "7", "-12", "true", "null", "\"hi\"", "hello", "", "{\"a\": 1",
     "NaN", "-Infinity"}
WorkflowTexts == {"{\"nodes\": [], \"last\": 3}", "plain text"}
ExtraTexts ==
    {"{\"a\": 1, \"b\": 2}", "{\"b\": 2, \"a\": 1}", "{\"a\":1,\"b\":2}", "{}",
     "{\"w\": {\"n\": [1]}, \"l\": [1, \"x\"], \"s\": \"t\", \"f\": false, \"z\": null}",
     "{\"a\": 1, \"b\": 2, \"a\": 3}", "{\"x\": NaN, \"y\": [Infinity]}",
     "[1, 2]", "5", "raw text", "\"str\"", "true", "null", "{\"a\": 1,", "Infinity"}

ChunkStores ==
    UNION {{[k \in S |-> CASE k = "prompt" -> p
                           [] k = "workflow" -> w
                           [] k = "extra_pnginfo" -> e
                           [] OTHER -> "Steps: 20"] :
               p \in PromptTexts, w \in WorkflowTexts, e \in ExtraTexts} :
           S \in SUBSET {"prompt", "workflow", "extra_pnginfo", "parameters"}}

\* a mapping of up to MaxExtra entries, beside a prompt and a workflow or not
WideStores ==
    UNION {{[k \in S \cup {"extra_pnginfo"} |->
                CASE k = "prompt" -> "{\"a\": 1}"
                  [] k = "workflow" -> "plain text"
                  [] OTHER -> WideText(n)] : n \in {3, MaxExtra - 1, MaxExtra}} :
           S \in SUBSET {"prompt", "workflow"}}

\* the chunks of the files whose conversion meets a fault
FaultStores ==
    {NoChunks, [k \in {"prompt"} |-> "{\"a\": 1}"],
     [k \in {"extra_pnginfo"} |-> "[1, 2]"]}

Faults == {"none", "open", "extract", "map", "save"}

\* the file is the argument, or the only file of the folder that is
InitFile ==
    /\ \/ /\ \E store \in ChunkStores \cup WideStores :
                fs = [p \in {"in/x.png"} |->
                         [ctime |-> 1, fault |-> "none", has_text |-> TRUE,
                          text |-> store]]
          /\ argv = <<"in/x.png">>
          /\ buffered = FALSE
       \/ /\ \E path \in {"in/x.png", "in/?.png"}, store \in FaultStores,
                fault \in Faults, has_text \in BOOLEAN :
                fs = [p \in {path} |->
                         [ctime |-> 1, fault |-> fault, has_text |-> has_text,
                          text |-> store]]
          /\ argv \in {<<"in">>} \cup {<<p>> : p \in DOMAIN fs}
          /\ buffered \in BOOLEAN
    /\ num_workers = 1
    /\ StartOfMain

SpecFile == InitFile /\ [][Next]_vars

-----------------------------------------------------------------------------
(* The properties. *)

Finished == {i \in 1..Len(futures) : futures[i].state = "done"}
Collected == {i \in 1..Len(futures) : futures[i].collected}
SourceOf(i) == fs[tasks[i][1]]

\* the worker returns success=False for task i whenever its call returns
AlwaysFails(i) == SourceOf(i).fault \in {"open", "map", "save"}

\* the futures whose result main has got from future.result()
Returned == {i \in Collected : ~futures[i].raised}

(* C1: with K tasks that always fail and N-K that always succeed, the      *)
(* coordinator counts every result it has got on the right counter         *)
(* whatever the completion order (a failed result does not keep the later  *)
(* ones from being counted), and ends with converted_count = N-K and       *)
(* failed_count = K.                                                       *)
C1_FinalCounts ==
    /\ Len(futures) > 0 =>
          /\ failed_count = Cardinality({i \in Returned : AlwaysFails(i)})
          /\ converted_count = Cardinality({i \in Returned : ~AlwaysFails(i)})
    /\ pc = "done" =>
          LET N == Len(tasks)
              K == Cardinality({i \in 1..Len(tasks) : AlwaysFails(i)})
          IN  /\ converted_count = N - K
              /\ failed_count = K
              /\ converted_count + failed_count = N

C1_Witness ==
    /\ pc = "done"
    /\ Len(tasks) = 3
    /\ failed_count = 2
    /\ converted_count = 1
    /\ AlwaysFails(1)

(* C2, as stated: no exception leaves save_webp_with_metadata; a failure   *)
(* while opening, mapping the tags or saving gives the result (False,      *)
(* source path); success=True is returned only when the destination was    *)
(* written.  (A failure inside metadata extraction is left out here: the   *)
(* extractor's own handler answers it with an empty record.)               *)
C2_NoFailureEscapes ==
    \A i \in Finished :
        /\ ~futures[i].raised
        /\ futures[i].png_path = tasks[i][1]
        /\ SourceOf(i).fault \in {"open", "map", "save"} => ~futures[i].success
        /\ futures[i].success =>
              futures[i].saved /\ tasks[i][2] \in DOMAIN written

\* the entries of the extra mapping of a metadata record, none when the value
\* is no mapping
MappingEntries(md) ==
    IF "extra_pnginfo" \in DOMAIN md /\ md["extra_pnginfo"].t = "dict"
    THEN md["extra_pnginfo"].items
    ELSE <<>>

\* how many of prompt and workflow a metadata record holds
Primary(md) ==
    (IF "prompt" \in DOMAIN md THEN 1 ELSE 0) + (IF "workflow" \in DOMAIN md THEN 1 ELSE 0)

(* C3: the assignments of the Tag Mapper are exactly: 0x0110 (272) with    *)
(* "prompt:<value>" iff prompt is present, 0x010F (271) with               *)
(* "workflow:<value>" iff workflow is present, and the i-th entry (from 0) *)
(* of an extra mapping at 0x010E (270) - i with "<key>:<value>", in        *)
(* insertion order, and nothing else; prompt, workflow and                 *)
(* {"a": 1, "b": 2} give 272, 271, 270 -> "a:1", 269 -> "b:2", and the     *)
(* mapping in the other order the other assignment.                        *)
C3_TagLayout ==
    \A i \in Finished :
        futures[i].saved =>
            LET md == futures[i].metadata_dict
                ex == futures[i].exif
                items == MappingEntries(md)
                text == SourceOf(i).text
            IN  /\ Len(ex) = Primary(md) + Len(items)
                /\ "prompt" \in DOMAIN md =>
                      ex[1] = [tag |-> 272,
                               value |-> "prompt:" \o TopValue(md["prompt"])]
                /\ "workflow" \in DOMAIN md =>
                      ex[Primary(md)] = [tag |-> 271,
                                         value |-> "workflow:" \o TopValue(md["workflow"])]
                /\ \A k \in 1..Len(items) :
                      ex[Primary(md) + k] =
                          [tag |-> 270 - (k - 1),
                           value |-> items[k][1] \o ":" \o ExtraValue(items[k][2])]
                /\ (/\ DOMAIN md = {"prompt", "workflow", "extra_pnginfo"}
                    /\ text["prompt"] = "{\"a\": 1}"
                    /\ text["workflow"] = "plain text"
                    /\ text["extra_pnginfo"] = "{\"a\": 1, \"b\": 2}")
                   => ex = <<[tag |-> 272, value |-> "prompt:{\"a\": 1}"],
                             [tag |-> 271, value |-> "workflow:plain text"],
                             [tag |-> 270, value |-> "a:1"],
                             [tag |-> 269, value |-> "b:2"]>>
                /\ (/\ DOMAIN md = {"extra_pnginfo"}
                    /\ text["extra_pnginfo"] = "{\"b\": 2, \"a\": 1}")
                   => ex = <<[tag |-> 270, value |-> "b:2"],
                             [tag |-> 269, value |-> "a:1"]>>

C3_Witness ==
    \E i \in Finished :
        /\ futures[i].saved
        /\ DOMAIN futures[i].metadata_dict = {"prompt", "workflow", "extra_pnginfo"}
        /\ SourceOf(i).text["extra_pnginfo"] = "{\"a\": 1, \"b\": 2}"
        /\ Len(futures[i].exif) = 4

(* C4, as stated: any two different source files of the task list have     *)
(* different destination paths.                                            *)
C4_DistinctDestinations ==
    \A i, j \in 1..Len(tasks) :
        tasks[i][1] # tasks[j][1] => tasks[i][2] # tasks[j][2]

(* C5, as stated, for a stdout that takes every print: every task of the   *)
(* list is submitted once, run by one worker once and its result counted   *)
(* once; the summary comes only after all N results have been collected;   *)
(* and main never stops with tasks listed before it has reported the       *)
(* summary.                                                                *)
C5_RunsToCompletion ==
    /\ Len(futures) <= Len(tasks)
    /\ \A i \in 1..Len(futures) :
          /\ futures[i].runs = (IF futures[i].state = "queued" THEN 0 ELSE 1)
          /\ futures[i].collected => futures[i].state = "done"
    /\ pc = "done" =>
          /\ Len(tasks) = Len(files_to_convert)
          /\ Len(futures) = Len(tasks)
          /\ Collected = 1..Len(tasks)
          /\ converted_count + failed_count = Len(tasks)
    /\ (pc = "crashed" /\ stdout = "open") => Len(tasks) = 0

(* C6: no two assignments the Tag Mapper makes for one file share a tag    *)
(* id, and no entry of the extra mapping gets 0x0110 (272) or 0x010F (271).*)
C6_UniqueTagIds ==
    \A i \in Finished :
        LET ex == futures[i].exif
            md == futures[i].metadata_dict
        IN  /\ \A a, b \in 1..Len(ex) : a # b => ex[a].tag # ex[b].tag
            /\ \A a \in (Primary(md) + 1)..Len(ex) : ex[a].tag \notin {271, 272}

C6_Witness ==
    \E i \in Finished :
        /\ Primary(futures[i].metadata_dict) = 2
        /\ Len(futures[i].exif) > 272

(* C7, as stated: every tag id the Tag Mapper assigns is an unsigned       *)
(* 16-bit integer, whatever the number of entries of the extra mapping.    *)
C7_TagIdsAreUint16 ==
    \A i \in Finished :
        \A a \in 1..Len(futures[i].exif) : futures[i].exif[a].tag \in 0..65535

\* the text after "<field>:" of a tag value
StripPrefix(value, field) == Slice(value, Len(field) + 2, Len(value))

\* the value written for tag id `tag`, "" when the tag is absent
ValueAt(ex, tag) ==
    IF \E a \in 1..Len(ex) : ex[a].tag = tag
    THEN ex[CHOOSE a \in 1..Len(ex) : ex[a].tag = tag].value
    ELSE ""

(* C8, as stated: for the prompt and the workflow chunk, the tag value     *)
(* without its "<field>:" prefix is the text of the source chunk; for an   *)
(* entry of an extra_pnginfo mapping it is the JSON text of the entry's    *)
(* value.                                                                  *)
C8_RoundTrip ==
    \A i \in Finished :
        (futures[i].saved /\ SourceOf(i).has_text /\ SourceOf(i).fault = "none") =>
            LET text == SourceOf(i).text
                ex == futures[i].exif
                items == MappingEntries(futures[i].metadata_dict)
            IN  /\ "prompt" \in DOMAIN text =>
                      StripPrefix(ValueAt(ex, 272), "prompt") = text["prompt"]
                /\ "workflow" \in DOMAIN text =>
                      StripPrefix(ValueAt(ex, 271), "workflow") = text["workflow"]
                /\ \A k \in 1..Len(items) :
                      StripPrefix(ValueAt(ex, 270 - (k - 1)), items[k][1])
                          = json_dumps(items[k][2])

(* C9: the output root and the date folder of every task exist before the  *)
(* first task is submitted, main creates them while it builds the task     *)
(* list, and nothing creates a directory once a task has been submitted.   *)
C9_DirectoriesBeforeDispatch ==
    /\ [](Len(futures) > 0 =>
             /\ Len(tasks) = Len(files_to_convert)
             /\ webp_root \in dirs
             /\ \A t \in 1..Len(tasks) : dirname(tasks[t][2]) \in dirs)
    /\ [][dirs' # dirs => (pc \in {"start", "found", "plan"} /\ futures = <<>>)]_vars

C9_Witness ==
    /\ Cardinality(Saving) = 2
    /\ \E i, j \in Saving : i # j /\ dirname(tasks[i][2]) = dirname(tasks[j][2])
    /\ Cardinality(dirs) = 2

(* C10, as stated, for a stdout that is open: when the extra_pnginfo chunk *)
(* is present and its value is no mapping (raw text, or a list, number,    *)
(* string, boolean or null), the Tag Mapper makes no assignment for it:    *)
(* only 0x0110 and 0x010F for a present prompt and workflow, no tag at or  *)
(* below 0x010E, no value with an empty key; and the conversion still      *)
(* succeeds: the destination is written and the call returns success=True. *)
C10_NonMappingExtra ==
    \A i \in Finished :
        LET f == SourceOf(i)
            ex == futures[i].exif
        IN  (/\ stdout = "open"
             /\ f.fault = "none"
             /\ f.has_text
             /\ "extra_pnginfo" \in DOMAIN f.text
             /\ ~(/\ json_loads(f.text["extra_pnginfo"]).ok
                  /\ json_loads(f.text["extra_pnginfo"]).v.t = "dict"))
            => /\ futures[i].saved
               /\ ~futures[i].raised
               /\ futures[i].success
               /\ {ex[a].tag : a \in 1..Len(ex)} =
                      {272 : k \in {"prompt"} \cap DOMAIN f.text}
                      \cup {271 : k \in {"workflow"} \cap DOMAIN f.text}
               /\ Len(ex) = Cardinality({"prompt", "workflow"} \cap DOMAIN f.text)
               /\ \A a \in 1..Len(ex) : ex[a].tag > 270 /\ Ch(ex[a].value, 1) # ":"

=============================================================================
